---- MODULE Spec2Model ----
(***************************************************************************)
(* Chainlink feed client (src/src/lib.rs): the query routine, its five     *)
(* typed entry points and the three Anchor adapters, over a runtime that   *)
(* answers a cross-program invocation with success or an error and at most *)
(* one return-data buffer tagged with a program id.                        *)
(*                                                                         *)
(* Numbers of 32 bits and more are kept at full width as little-endian     *)
(* sequences of 16-bit limbs: a u32 is 2 limbs, a u64 is 4,                *)
(* an i128 is a sign and a magnitude of 8 limbs.  Bytes are 0..255.        *)
(***************************************************************************)
EXTENDS Integers, Sequences, FiniteSets, TLC

\* ------------------------------------------------------------------ bounds
\* longest text (in characters) the stub program answers with
MaxTextLen == 2
\* longest of the short arbitrary buffers the stub program answers with
MaxShortLen == 2

\* ------------------------------------------------------------ byte helpers
SeqsUpTo(S, n) == UNION {[1..k -> S] : k \in 0..n}

Drop(bs, n) == SubSeq(bs, n + 1, Len(bs))

Take(bs, n) == SubSeq(bs, 1, n)

\* to_le_bytes of an unsigned number held as 16-bit limbs
LimbsToBytes(ls) ==
  [i \in 1..(2 * Len(ls)) |->
     IF i % 2 = 1 THEN ls[(i + 1) \div 2] % 256 ELSE ls[i \div 2] \div 256]

\* from_le_bytes into 16-bit limbs (an even number of bytes)
BytesToLimbs(bs) ==
  [i \in 1..(Len(bs) \div 2) |-> bs[2 * i - 1] + 256 * bs[2 * i]]

\* two's complement negation modulo 2^(16 * Len(ls))
NegLimbs(ls) ==
  [i \in 1..Len(ls) |->
     ((65535 - ls[i]) + (IF \A j \in 1..(i - 1) : ls[j] = 0 THEN 1 ELSE 0)) % 65536]

\* i128::to_le_bytes of a sign-and-magnitude value
I128ToBytes(a) == LimbsToBytes(IF a.neg THEN NegLimbs(a.mag) ELSE a.mag)

\* a slip: the 16 bytes read as an unsigned number
BytesToI128_Unsigned(bs) == [neg |-> FALSE, mag |-> BytesToLimbs(bs)]

\* i128::from_le_bytes: the top bit is the sign
BytesToI128(bs) ==
  LET ls == BytesToLimbs(bs)
  IN IF ls[8] >= 32768 THEN [neg |-> TRUE, mag |-> NegLimbs(ls)]
     ELSE [neg |-> FALSE, mag |-> ls]

\* ------------------------------------------------------------------ UTF-8
\* char::encode_utf8
Utf8Char(c) ==
  IF c < 128 THEN <<c>>
  ELSE IF c < 2048 THEN <<192 + (c \div 64), 128 + (c % 64)>>
  ELSE IF c < 65536 THEN <<224 + (c \div 4096), 128 + ((c \div 64) % 64), 128 + (c % 64)>>
  ELSE <<240 + (c \div 262144), 128 + ((c \div 4096) % 64),
         128 + ((c \div 64) % 64), 128 + (c % 64)>>

RECURSIVE Utf8Encode(_)
Utf8Encode(s) == IF s = <<>> THEN <<>> ELSE Utf8Char(Head(s)) \o Utf8Encode(Tail(s))

IsCont(b) == b >= 128 /\ b <= 191

\* width of the sequence a lead byte starts, 0 for a byte that starts none
Utf8Width(b) ==
  IF b < 128 THEN 1
  ELSE IF b >= 194 /\ b <= 223 THEN 2
  ELSE IF b >= 224 /\ b <= 239 THEN 3
  ELSE IF b >= 240 /\ b <= 244 THEN 4
  ELSE 0

\* the second byte's range excludes overlong forms, surrogates and > U+10FFFF
Utf8SecondOk(b, b2) ==
  IF b = 224 THEN b2 >= 160 /\ b2 <= 191
  ELSE IF b = 237 THEN b2 >= 128 /\ b2 <= 159
  ELSE IF b = 240 THEN b2 >= 144 /\ b2 <= 191
  ELSE IF b = 244 THEN b2 >= 128 /\ b2 <= 143
  ELSE IsCont(b2)

Utf8Point(bs, w) ==
  IF w = 1 THEN bs[1]
  ELSE IF w = 2 THEN (bs[1] - 192) * 64 + (bs[2] - 128)
  ELSE IF w = 3 THEN (bs[1] - 224) * 4096 + (bs[2] - 128) * 64 + (bs[3] - 128)
  ELSE (bs[1] - 240) * 262144 + (bs[2] - 128) * 4096 + (bs[3] - 128) * 64 + (bs[4] - 128)

\* String::from_utf8: the characters, or a failure on the first bad sequence
RECURSIVE Utf8Decode(_)
Utf8Decode(bs) ==
  IF bs = <<>> THEN [ok |-> TRUE, chars |-> <<>>]
  ELSE LET w == Utf8Width(bs[1])
           good == /\ w > 0
                   /\ Len(bs) >= w
                   /\ w >= 2 => Utf8SecondOk(bs[1], bs[2])
                   /\ \A i \in 3..w : IsCont(bs[i])
       IN IF ~good THEN [ok |-> FALSE, chars |-> <<>>]
          ELSE LET rest == Utf8Decode(Drop(bs, w))
               IN IF rest.ok
                  THEN [ok |-> TRUE, chars |-> <<Utf8Point(bs, w)>> \o rest.chars]
                  ELSE rest

\* ------------------------------------------------------------ Query codec
\* the variants of enum Query in declaration order; the tag is the ordinal
QueryVariants ==
  <<"Version", "Decimals", "Description", "RoundData", "LatestRoundData", "Aggregator">>

Ordinal(variant) == (CHOOSE i \in 1..Len(QueryVariants) : QueryVariants[i] = variant) - 1

Unit(variant) == [variant |-> variant]

RoundDataQuery(round_id) == [variant |-> "RoundData", round_id |-> round_id]

\* a slip: the tag written as a 4-byte integer instead of one byte
SerializeQuery_WideTag(scope) ==
  <<Ordinal(scope.variant), 0, 0, 0>> \o
  (IF scope.variant = "RoundData" THEN LimbsToBytes(scope.round_id) ELSE <<>>)

\* derived BorshSerialize of Query: one tag byte, then the variant's fields
SerializeQuery(scope) ==
  <<Ordinal(scope.variant)>> \o
  (IF scope.variant = "RoundData" THEN LimbsToBytes(scope.round_id) ELSE <<>>)

QUERY_INSTRUCTION_DISCRIMINATOR == <<39, 251, 130, 159, 46, 136, 164, 169>>

\* the buffer query fills: the discriminator, then the serialized scope
InstructionData(scope) == QUERY_INSTRUCTION_DISCRIMINATOR \o SerializeQuery(scope)

\* --------------------------------------------------------- response codec
Types == {"u8", "String", "Round", "Pubkey"}

Val(t, v) == [t |-> t, v |-> v]

NoVal == [t |-> "none", v |-> <<>>]

\* derived BorshSerialize of Round: the fields in declaration order
SerializeRound(r) ==
  LimbsToBytes(r.round_id) \o LimbsToBytes(r.slot) \o
  LimbsToBytes(r.timestamp) \o I128ToBytes(r.answer)

\* borsh of a String: u32 byte length, then the UTF-8 bytes
SerializeString(s) ==
  LET raw == Utf8Encode(s)
  IN LimbsToBytes(<<Len(raw) % 65536, Len(raw) \div 65536>>) \o raw

\* borsh of a value of each result type
Serialize(val) ==
  IF val.t = "u8" THEN <<val.v>>
  ELSE IF val.t = "String" THEN SerializeString(val.v)
  ELSE IF val.t = "Round" THEN SerializeRound(val.v)
  ELSE val.v

Failed == [ok |-> FALSE, value |-> NoVal, rest |-> <<>>]

Got(val, rest) == [ok |-> TRUE, value |-> val, rest |-> rest]

\* derived BorshDeserialize of Round: four reads, each failing on a short input
DeserializeRound(bs) ==
  IF Len(bs) < 4 THEN Failed
  ELSE LET round_id == BytesToLimbs(Take(bs, 4))
           b1 == Drop(bs, 4)
       IN IF Len(b1) < 8 THEN Failed
          ELSE LET slot == BytesToLimbs(Take(b1, 8))
                   b2 == Drop(b1, 8)
               IN IF Len(b2) < 4 THEN Failed
                  ELSE LET timestamp == BytesToLimbs(Take(b2, 4))
                           b3 == Drop(b2, 4)
                       IN IF Len(b3) < 16 THEN Failed
                          ELSE Got(Val("Round",
                                       [round_id |-> round_id, slot |-> slot,
                                        timestamp |-> timestamp,
                                        answer |-> BytesToI128(Take(b3, 16))]),
                                   Drop(b3, 16))

\* borsh of a String: the length, that many bytes, then the UTF-8 check
DeserializeString(bs) ==
  IF Len(bs) < 4 THEN Failed
  ELSE LET n == BytesToLimbs(Take(bs, 4))
           body == Drop(bs, 4)
       IN IF n[2] > 0 \/ n[1] > Len(body) THEN Failed
          ELSE LET text == Utf8Decode(Take(body, n[1]))
               IN IF text.ok THEN Got(Val("String", text.chars), Drop(body, n[1]))
                  ELSE Failed

\* BorshDeserialize::deserialize of each result type, leaving the unread rest
Deserialize(t, bs) ==
  IF t = "u8" THEN (IF Len(bs) < 1 THEN Failed ELSE Got(Val("u8", bs[1]), Drop(bs, 1)))
  ELSE IF t = "String" THEN DeserializeString(bs)
  ELSE IF t = "Round" THEN DeserializeRound(bs)
  ELSE (IF Len(bs) < 32 THEN Failed ELSE Got(Val("Pubkey", Take(bs, 32)), Drop(bs, 32)))

\* ---------------------------------------------------------------- results
Ok(val) == [kind |-> "Ok", val |-> val, err |-> "-"]

Err(e) == [kind |-> "Err", val |-> NoVal, err |-> e]

Panicked(msg) == [kind |-> "Panic", val |-> NoVal, err |-> msg]

NoResult == [kind |-> "None", val |-> NoVal, err |-> "-"]

\* a slip: bytes left over after the value are ignored
TryFromSlice_Lenient(t, bs) ==
  LET r == Deserialize(t, bs)
  IN IF r.ok THEN Ok(r.value) ELSE Err("InvalidAccountData")

\* T::try_from_slice(&data).map_err(|_| InvalidAccountData): every byte is used
TryFromSlice(t, bs) ==
  LET r == Deserialize(t, bs)
  IN IF r.ok /\ r.rest = <<>> THEN Ok(r.value) ELSE Err("InvalidAccountData")

\* ----------------------------------------------------------------- inputs
KeyA == [i \in 1..32 |-> 17]

KeyB == [i \in 1..32 |-> i]

Keys == {KeyA, KeyB}

\* the fields of an AccountInfo that query and the runtime look at
AccountInfo(key, is_signer, is_writable) ==
  [key |-> key, is_signer |-> is_signer, is_writable |-> is_writable]

ProgramAccounts == {AccountInfo(k, FALSE, FALSE) : k \in Keys}

FeedAccounts == {AccountInfo(k, s, w) : k \in Keys, s \in BOOLEAN, w \in BOOLEAN}

U32(n) == <<n % 65536, n \div 65536>>

U32Max == <<65535, 65535>>

RoundIds == {U32(42), U32Max, <<772, 258>>}

I128(neg, mag) == [neg |-> neg, mag |-> mag]

ExampleAnswer == I128(FALSE, <<43520, 874, 71, 0, 0, 0, 0, 0>>)

I128Min == I128(TRUE, <<0, 0, 0, 0, 0, 0, 0, 32768>>)

I128Max == I128(FALSE, <<65535, 65535, 65535, 65535, 65535, 65535, 65535, 32767>>)

Answers ==
  {ExampleAnswer, I128Min, I128Max,
   I128(TRUE, <<1, 0, 0, 0, 0, 0, 0, 0>>), I128(FALSE, <<0, 0, 0, 0, 0, 0, 0, 0>>)}

Round(round_id, slot, timestamp, answer) ==
  [round_id |-> round_id, slot |-> slot, timestamp |-> timestamp, answer |-> answer]

ExampleRound == Round(U32(42), <<1000, 0, 0, 0>>, <<61696, 25939>>, ExampleAnswer)

Rounds ==
  {Round(i, s, <<61696, 25939>>, a) :
     i \in {U32(42), U32Max},
     s \in {<<1000, 0, 0, 0>>, <<65535, 65535, 65535, 65535>>},
     a \in Answers}

ByteSamples == {0, 7, 65, 255}

CodePoints == {65, 233, 8364}

Texts == SeqsUpTo(CodePoints, MaxTextLen)

\* byte strings that are no UTF-8: a lone lead byte, an invalid byte, a stray
\* continuation byte, an overlong form, a surrogate
BadTexts == {<<195>>, <<255>>, <<65, 169>>, <<192, 128>>, <<237, 160, 128>>}

Contents == {Utf8Encode(s) : s \in Texts} \cup BadTexts

\* declared lengths around the true one, and two far beyond it
DeclaredFor(c) ==
  {U32(Len(c)), U32(Len(c) + 1), <<0, 1>>, U32Max}
    \cup (IF Len(c) > 0 THEN {U32(Len(c) - 1)} ELSE {})

ShortBufs == SeqsUpTo(ByteSamples, MaxShortLen)

StringBufs == UNION {{LimbsToBytes(n) \o c : n \in DeclaredFor(c)} : c \in Contents}

\* a 32-byte encoding, the same cut by one byte and extended by one byte
Around(bs) == {bs, Take(bs, Len(bs) - 1), bs \o <<0>>}

RoundBufs == UNION {Around(SerializeRound(r)) : r \in Rounds}

KeyBufs == UNION {Around(k) : k \in Keys}

\* every buffer the invoked program may publish
ReturnBuffers == ShortBufs \cup StringBufs \cup RoundBufs \cup KeyBufs

NoReturnData == [present |-> FALSE, key |-> <<>>, data |-> <<>>]

SomeReturnData(key, data) == [present |-> TRUE, key |-> key, data |-> data]

\* what the slot may hold when a call starts: nothing, or what an earlier
\* invocation of the caller left there
StaleReturnData ==
  {NoReturnData, SomeReturnData(KeyA, <<7>>), SomeReturnData(KeyB, SerializeRound(ExampleRound))}

\* errors the runtime's invoke reports
RuntimeErrors == {"AccountBorrowFailed", "InvalidAccountData"}

\* ------------------------------------------------------------------ state
VARIABLES
  pc,             \* where the current call stands: idle, encoded, invoked,
                  \* read, returned, done, panicked
  stack,          \* the frames of the call, outermost first, each with its arguments
  scope,          \* query's scope argument
  T,              \* query's result type parameter
  ix,             \* the Instruction query has built
  cpi,            \* what the runtime's invoke was handed: instruction and accounts lent
  invoke_result,  \* what invoke reported: "none", "Ok" or an error
  return_data,    \* the runtime's return-data slot
  data,           \* the bytes get_return_data handed to query
  inner,          \* what query returned to the entry point
  result,         \* what the entry point's caller received
  steps,          \* the steps of the current call, in order
  invocations     \* how often the current call invoked the runtime

vars ==
  <<pc, stack, scope, T, ix, cpi, invoke_result, return_data, data, inner, result,
    steps, invocations>>

Frame(fn, program_id, feed) == [fn |-> fn, program_id |-> program_id, feed |-> feed]

NoIx == [program_id |-> <<>>, accounts |-> <<>>, data |-> <<>>]

NoCpi == [ix |-> NoIx, account_infos |-> <<>>]

NoScope == [variant |-> "none"]

Init ==
  /\ pc = "idle"
  /\ stack = <<>>
  /\ scope = NoScope
  /\ T = "none"
  /\ ix = NoIx
  /\ cpi = NoCpi
  /\ invoke_result = "none"
  /\ return_data \in StaleReturnData
  /\ data = <<>>
  /\ inner = NoResult
  /\ result = NoResult
  /\ steps = <<>>
  /\ invocations = 0

\* AccountMeta::new_readonly(pubkey, is_signer)
AccountMeta_new_readonly(pubkey, is_signer) ==
  [pubkey |-> pubkey, is_signer |-> is_signer, is_writable |-> FALSE]

\* a slip: the account meta takes the flags of the account the caller passed
Instruction_MetaFromFeed(program_id, feed, bytes) ==
  [program_id |-> program_id.key,
   accounts |-> <<[pubkey |-> feed.key, is_signer |-> feed.is_signer,
                   is_writable |-> feed.is_writable]>>,
   data |-> bytes]

\* Instruction { program_id: *program_id.key, accounts: vec![..], data }
Instruction(program_id, feed, bytes) ==
  [program_id |-> program_id.key,
   accounts |-> <<AccountMeta_new_readonly(feed.key, FALSE)>>,
   data |-> bytes]

\* query, up to the built instruction: the buffer is filled and ix is assembled
query(callers, program_id, feed, query_scope, t) ==
  /\ pc = "idle"
  /\ pc' = "encoded"
  /\ stack' = Append(callers, Frame("query", program_id, feed))
  /\ scope' = query_scope
  /\ T' = t
  /\ ix' = Instruction(program_id, feed, InstructionData(query_scope))
  /\ steps' = <<"encode">>
  /\ invocations' = 0
  /\ cpi' = NoCpi
  /\ invoke_result' = "none"
  /\ data' = <<>>
  /\ inner' = NoResult
  /\ result' = NoResult
  /\ UNCHANGED return_data

version(callers, program_id, feed) ==
  query(Append(callers, Frame("version", program_id, feed)),
        program_id, feed, Unit("Version"), "u8")

decimals(callers, program_id, feed) ==
  query(Append(callers, Frame("decimals", program_id, feed)),
        program_id, feed, Unit("Decimals"), "u8")

description(callers, program_id, feed) ==
  query(Append(callers, Frame("description", program_id, feed)),
        program_id, feed, Unit("Description"), "String")

\* a slip: the entry point bound to the RoundData variant
latest_round_data_SendsRoundData(callers, program_id, feed) ==
  query(Append(callers, Frame("latest_round_data", program_id, feed)),
        program_id, feed, RoundDataQuery(U32(0)), "Round")

latest_round_data(callers, program_id, feed) ==
  query(Append(callers, Frame("latest_round_data", program_id, feed)),
        program_id, feed, Unit("LatestRoundData"), "Round")

aggregator(callers, program_id, feed) ==
  query(Append(callers, Frame("aggregator", program_id, feed)),
        program_id, feed, Unit("Aggregator"), "Pubkey")

\* the fields are copied one by one (those the model keeps: key and the two flags)
anchor_to_solana_account_info(anchor_info) ==
  [key |-> anchor_info.key,
   is_signer |-> anchor_info.is_signer,
   is_writable |-> anchor_info.is_writable]

latest_round_data_anchor(program_id, feed) ==
  LET program_info == anchor_to_solana_account_info(program_id)
      feed_info == anchor_to_solana_account_info(feed)
  IN latest_round_data(<<Frame("latest_round_data_anchor", program_id, feed)>>,
                       program_info, feed_info)

decimals_anchor(program_id, feed) ==
  LET program_info == anchor_to_solana_account_info(program_id)
      feed_info == anchor_to_solana_account_info(feed)
  IN decimals(<<Frame("decimals_anchor", program_id, feed)>>, program_info, feed_info)

description_anchor(program_id, feed) ==
  LET program_info == anchor_to_solana_account_info(program_id)
      feed_info == anchor_to_solana_account_info(feed)
  IN description(<<Frame("description_anchor", program_id, feed)>>, program_info, feed_info)

RawEntries == {"version", "decimals", "description", "latest_round_data", "aggregator"}

AnchorEntries == {"latest_round_data_anchor", "decimals_anchor", "description_anchor"}

\* the frame of query itself, innermost
QueryFrame == stack[Len(stack)]

\* invoke(&ix, &[feed.clone()])?: one synchronous call into the runtime, which
\* succeeds and leaves at most one return-data buffer, or fails; a failure is
\* handed on to query's caller as it is
InvokeOk ==
  /\ pc = "encoded"
  /\ cpi' = [ix |-> ix, account_infos |-> <<QueryFrame.feed>>]
  /\ invocations' = invocations + 1
  /\ steps' = Append(steps, "invoke")
  /\ invoke_result' = "Ok"
  /\ \/ return_data' = NoReturnData
     \/ \E k \in Keys, b \in ReturnBuffers : return_data' = SomeReturnData(k, b)
  /\ pc' = "invoked"
  /\ UNCHANGED <<stack, scope, T, ix, data, inner, result>>

\* a slip: the runtime's error replaced by InvalidAccountData
InvokeErr_AsInvalidAccountData ==
  /\ pc = "encoded"
  /\ cpi' = [ix |-> ix, account_infos |-> <<QueryFrame.feed>>]
  /\ invocations' = invocations + 1
  /\ steps' = Append(steps, "invoke")
  /\ \E e \in RuntimeErrors :
       /\ invoke_result' = e
       /\ inner' = Err("InvalidAccountData")
  /\ return_data' \in {return_data, NoReturnData}
  /\ pc' = "returned"
  /\ UNCHANGED <<stack, scope, T, ix, data, result>>

\* a slip: the failure of invoke dropped, query going on to the return data
InvokeErr_Continue ==
  /\ pc = "encoded"
  /\ cpi' = [ix |-> ix, account_infos |-> <<QueryFrame.feed>>]
  /\ invocations' = invocations + 1
  /\ steps' = Append(steps, "invoke")
  /\ \E e \in RuntimeErrors : invoke_result' = e
  /\ return_data' \in {return_data, NoReturnData}
  /\ pc' = "invoked"
  /\ UNCHANGED <<stack, scope, T, ix, data, inner, result>>

InvokeErr ==
  /\ pc = "encoded"
  /\ cpi' = [ix |-> ix, account_infos |-> <<QueryFrame.feed>>]
  /\ invocations' = invocations + 1
  /\ steps' = Append(steps, "invoke")
  /\ \E e \in RuntimeErrors :
       /\ invoke_result' = e
       /\ inner' = Err(e)
  /\ return_data' \in {return_data, NoReturnData}
  /\ pc' = "returned"
  /\ UNCHANGED <<stack, scope, T, ix, data, result>>

Invoke == InvokeOk \/ InvokeErr

DefaultValue(t) ==
  IF t = "u8" THEN Val("u8", 0)
  ELSE IF t = "String" THEN Val("String", <<>>)
  ELSE IF t = "Round"
    THEN Val("Round", Round(U32(0), <<0, 0, 0, 0>>, U32(0),
                            I128(FALSE, <<0, 0, 0, 0, 0, 0, 0, 0>>)))
  ELSE Val("Pubkey", [i \in 1..32 |-> 0])

\* a slip: a missing buffer answered with the type's default value
GetReturnData_OrDefault ==
  /\ pc = "invoked"
  /\ steps' = Append(steps, "read")
  /\ IF return_data.present
     THEN /\ data' = return_data.data
          /\ pc' = "read"
          /\ UNCHANGED <<inner, result>>
     ELSE /\ pc' = "returned"
          /\ inner' = Ok(DefaultValue(T))
          /\ UNCHANGED <<data, result>>
  /\ UNCHANGED <<stack, scope, T, ix, cpi, invoke_result, return_data, invocations>>

\* a change: a buffer tagged with another program than the target is refused
GetReturnData_CheckKey ==
  /\ pc = "invoked"
  /\ steps' = Append(steps, "read")
  /\ IF ~return_data.present
     THEN /\ pc' = "panicked"
          /\ inner' = Panicked("chainlink store had no return_data!")
          /\ result' = Panicked("chainlink store had no return_data!")
          /\ UNCHANGED data
     ELSE IF return_data.key = ix.program_id
     THEN /\ data' = return_data.data
          /\ pc' = "read"
          /\ UNCHANGED <<inner, result>>
     ELSE /\ pc' = "returned"
          /\ inner' = Err("InvalidAccountData")
          /\ UNCHANGED <<data, result>>
  /\ UNCHANGED <<stack, scope, T, ix, cpi, invoke_result, return_data, invocations>>

\* get_return_data().expect("chainlink store had no return_data!")
GetReturnData ==
  /\ pc = "invoked"
  /\ steps' = Append(steps, "read")
  /\ IF return_data.present
     THEN /\ data' = return_data.data
          /\ pc' = "read"
          /\ UNCHANGED <<inner, result>>
     ELSE /\ pc' = "panicked"
          /\ inner' = Panicked("chainlink store had no return_data!")
          /\ result' = Panicked("chainlink store had no return_data!")
          /\ UNCHANGED data
  /\ UNCHANGED <<stack, scope, T, ix, cpi, invoke_result, return_data, invocations>>

\* T::try_from_slice(&data).map_err(..)?; Ok(data)
Decode ==
  /\ pc = "read"
  /\ steps' = Append(steps, "decode")
  /\ inner' = TryFromSlice(T, data)
  /\ pc' = "returned"
  /\ UNCHANGED <<stack, scope, T, ix, cpi, invoke_result, return_data, data, result,
                 invocations>>

\* a slip: the error of the raw entry point handed on as it is
MapErrAnchor_PassThrough(r) == r

\* .map_err(|_| Error::from(ErrorCode::AccountNotEnoughKeys))
MapErrAnchor(r) == IF r.kind = "Err" THEN Err("AccountNotEnoughKeys") ELSE r

\* a raw entry point hands query's result to its caller unchanged
RawReturn ==
  /\ pc = "returned"
  /\ stack[1].fn \in RawEntries \cup {"query"}
  /\ result' = inner
  /\ pc' = "done"
  /\ UNCHANGED <<stack, scope, T, ix, cpi, invoke_result, return_data, data, inner,
                 steps, invocations>>

\* an adapter maps the error of the raw entry point it called
AnchorReturn ==
  /\ pc = "returned"
  /\ stack[1].fn \in AnchorEntries
  /\ result' = MapErrAnchor(inner)
  /\ pc' = "done"
  /\ UNCHANGED <<stack, scope, T, ix, cpi, invoke_result, return_data, data, inner,
                 steps, invocations>>

\* the caller goes on to its next call (after a panic: a later transaction);
\* in between, the slot is cleared or filled by another invocation of the caller
NextCall ==
  /\ pc \in {"done", "panicked"}
  /\ pc' = "idle"
  /\ stack' = <<>>
  /\ scope' = NoScope
  /\ T' = "none"
  /\ ix' = NoIx
  /\ cpi' = NoCpi
  /\ invoke_result' = "none"
  /\ data' = <<>>
  /\ inner' = NoResult
  /\ result' = NoResult
  /\ steps' = <<>>
  /\ invocations' = 0
  /\ return_data' \in StaleReturnData

CallRaw ==
  \E p \in ProgramAccounts, f \in FeedAccounts :
    \/ version(<<>>, p, f)
    \/ decimals(<<>>, p, f)
    \/ description(<<>>, p, f)
    \/ latest_round_data(<<>>, p, f)
    \/ aggregator(<<>>, p, f)

CallAnchor ==
  \E p \in ProgramAccounts, f \in FeedAccounts :
    \/ latest_round_data_anchor(p, f)
    \/ decimals_anchor(p, f)
    \/ description_anchor(p, f)

Scopes == {Unit(v) : v \in {"Version", "Decimals", "Description", "LatestRoundData",
                            "Aggregator"}}
            \cup {RoundDataQuery(i) : i \in RoundIds}

\* query called with any scope and any result type
CallQuery ==
  \E p \in ProgramAccounts, s \in Scopes, t \in Types :
    query(<<>>, p, AccountInfo(KeyB, FALSE, TRUE), s, t)

Next ==
  \/ CallRaw
  \/ CallAnchor
  \/ Invoke
  \/ GetReturnData
  \/ Decode
  \/ RawReturn
  \/ AnchorReturn
  \/ NextCall

\* the public surface: the five entry points and the three adapters
Spec == Init /\ [][Next]_vars

NextQuery ==
  \/ CallQuery
  \/ Invoke
  \/ GetReturnData
  \/ Decode
  \/ RawReturn
  \/ NextCall

\* query itself, over every scope and result type
SpecQuery == Init /\ [][NextQuery]_vars

\* ================================================================= claims
Entry == stack[1].fn

\* the runtime has been handed an instruction in the current call
Handed == invocations > 0

Finished == pc \in {"done", "panicked"}

\* query ran its decode step in the current call
Decoded == Len(steps) = 4 /\ pc \in {"returned", "done"}

\* ---- C1
C1_Tag(variant) ==
  CASE variant = "Version" -> 0
    [] variant = "Decimals" -> 1
    [] variant = "Description" -> 2
    [] variant = "RoundData" -> 3
    [] variant = "LatestRoundData" -> 4
    [] variant = "Aggregator" -> 5

C1_Payload(s) ==
  IF s.variant = "RoundData"
  THEN <<s.round_id[1] % 256, s.round_id[1] \div 256,
         s.round_id[2] % 256, s.round_id[2] \div 256>>
  ELSE <<>>

\* C1: for every Query variant the instruction data handed to the runtime is the
\* 8 bytes 27 FB 82 9F 2E 88 A4 A9, then one tag byte equal to the variant's
\* ordinal (Version=0 .. Aggregator=5), then only for RoundData the 4-byte
\* little-endian round_id: 9 bytes, or 13 for RoundData, and nothing else.
C1_QueryWireFormat ==
  Handed =>
    /\ cpi.ix.data =
         <<39, 251, 130, 159, 46, 136, 164, 169>> \o <<C1_Tag(scope.variant)>>
           \o C1_Payload(scope)
    /\ Len(cpi.ix.data) = (IF scope.variant = "RoundData" THEN 13 ELSE 9)

C1_Witness ==
  /\ Handed
  /\ scope = RoundDataQuery(<<772, 258>>)
  /\ cpi.ix.data = <<39, 251, 130, 159, 46, 136, 164, 169, 3, 4, 3, 2, 1>>

\* ---- C2
\* C2 as stated: whenever a call through a raw entry point does not succeed,
\* whatever the cause, the caller receives Err(InvalidAccountData) and nothing else.
C2_Original ==
  (Finished /\ Entry \in RawEntries /\ result.kind # "Ok")
    => result = Err("InvalidAccountData")

\* C2 amended: a call through a raw entry point that does not succeed ends by
\* cause: an invocation failure gives the runtime's own error unchanged, absent
\* return data after a successful invocation is a panic and not a returned
\* error, and return bytes that do not decode give Err(InvalidAccountData).
C2_FailureByCause ==
  (Finished /\ Entry \in RawEntries /\ result.kind # "Ok") =>
    /\ invoke_result # "Ok" =>
         result.kind = "Err" /\ result.err = invoke_result /\ pc = "done"
    /\ (invoke_result = "Ok" /\ ~return_data.present) =>
         result.kind = "Panic" /\ pc = "panicked"
    /\ (invoke_result = "Ok" /\ return_data.present) =>
         result.kind = "Err" /\ result.err = "InvalidAccountData" /\ pc = "done"

C2_Witness ==
  /\ pc = "done"
  /\ Entry = "version"
  /\ invoke_result = "AccountBorrowFailed"
  /\ result = Err("AccountBorrowFailed")

\* ---- C3
\* C3: when the invoked program reports success but no return data is
\* available, the call never completes with an Ok result, for every entry
\* point and result type: no default or fabricated value reaches the caller.
C3_NoReturnDataNeverOk ==
  (Handed /\ invoke_result = "Ok" /\ ~return_data.present) =>
    /\ inner.kind # "Ok"
    /\ result.kind # "Ok"
    /\ pc \in {"invoked", "panicked"}

C3_Witness ==
  /\ pc = "panicked"
  /\ Entry = "decimals_anchor"
  /\ invoke_result = "Ok"
  /\ ~return_data.present
  /\ result.kind = "Panic"

\* ---- C4
\* the buffers that are exactly the encoding of one value of type t
WellFormed(t, b) ==
  IF t = "u8" THEN Len(b) = 1
  ELSE IF t = "String"
    THEN /\ Len(b) >= 4
         /\ b[3] = 0 /\ b[4] = 0
         /\ b[1] + 256 * b[2] = Len(b) - 4
         /\ \E s \in Texts : Utf8Encode(s) = Drop(b, 4)
  ELSE Len(b) = 32

C5_ExampleBytes ==
  <<42, 0, 0, 0, 232, 3, 0, 0, 0, 0, 0, 0, 0, 241, 83, 101,
    0, 170, 106, 3, 71, 0, 0, 0, 0, 0, 0, 0, 0, 0, 0, 0>>

C5_Returned(r) ==
  /\ result.kind = "Ok"
  /\ result.val.t = "Round"
  /\ result.val.v = r

\* C5: when the invoked program returns the 32-byte encoding of a Round r
\* (round_id, slot, timestamp, answer, little-endian, answer in two's
\* complement), latest_round_data returns r field for field, also with answer
\* at the minimum and the maximum of i128 and for the example round.
C5_RoundRoundTrip ==
  (pc = "done" /\ Entry = "latest_round_data" /\ invoke_result = "Ok"
     /\ return_data.present) =>
    /\ \A r \in Rounds : return_data.data = SerializeRound(r) => C5_Returned(r)
    /\ return_data.data = C5_ExampleBytes => C5_Returned(ExampleRound)
    /\ return_data.data = <<42, 0, 0, 0>> \o [i \in 1..8 |-> 255] \o <<0, 241, 83, 101>>
                            \o [i \in 1..15 |-> 0] \o <<128>>
         => C5_Returned(Round(U32(42), <<65535, 65535, 65535, 65535>>,
                              <<61696, 25939>>, I128Min))

C5_Witness ==
  /\ pc = "done"
  /\ Entry = "latest_round_data"
  /\ return_data.data = SerializeRound(Round(U32Max, <<1000, 0, 0, 0>>,
                                             <<61696, 25939>>, I128Min))
  /\ result.kind = "Ok"
  /\ result.val.v.answer = I128Min

\* ---- C6
\* C6: the instruction handed to the runtime targets the key of the program_id
\* account, its account list is exactly the feed's key, not writable and not a
\* signer whatever flags the caller's feed account has, and the only account
\* lent to the invocation is the feed account.
C6_InstructionShape ==
  Handed =>
    /\ cpi.ix.program_id = stack[1].program_id.key
    /\ Len(cpi.ix.accounts) = 1
    /\ cpi.ix.accounts[1].pubkey = stack[1].feed.key
    /\ ~cpi.ix.accounts[1].is_writable
    /\ ~cpi.ix.accounts[1].is_signer
    /\ cpi.account_infos = <<stack[1].feed>>

C6_Witness ==
  /\ Handed
  /\ Entry = "description_anchor"
  /\ stack[1].feed = AccountInfo(KeyB, TRUE, TRUE)
  /\ stack[1].program_id.key = KeyA
  /\ cpi.ix.accounts = <<[pubkey |-> KeyB, is_signer |-> FALSE, is_writable |-> FALSE]>>

\* ---- C7
Delegate(fn) ==
  CASE fn = "latest_round_data_anchor" -> "latest_round_data"
    [] fn = "decimals_anchor" -> "decimals"
    [] fn = "description_anchor" -> "description"

\* C7 as stated: an adapter returns Ok(v) exactly when the raw entry point
\* does, and every failure of the underlying call, whatever its cause, reaches
\* the adapter's caller as AccountNotEnoughKeys.
C7_Original ==
  (Finished /\ Entry \in AnchorEntries) =>
    /\ result.kind = "Ok" <=> inner.kind = "Ok"
    /\ result.kind = "Ok" => result = inner
    /\ inner.kind # "Ok" => result = Err("AccountNotEnoughKeys")

\* C7 amended: an adapter calls its raw entry point with the same accounts and
\* returns Ok(v) exactly when that returns Ok(v); every error the raw entry
\* point returns reaches the adapter's caller as AccountNotEnoughKeys; when the
\* raw entry point panics (no return data) the adapter returns nothing.
C7_AdapterResult ==
  (Finished /\ Entry \in AnchorEntries) =>
    /\ stack[2] = Frame(Delegate(Entry), stack[1].program_id, stack[1].feed)
    /\ result.kind = "Ok" <=> inner.kind = "Ok"
    /\ result.kind = "Ok" => result = inner
    /\ inner.kind = "Err" => result = Err("AccountNotEnoughKeys")
    /\ inner.kind = "Panic" => result.kind = "Panic" /\ pc = "panicked"

C7_Witness ==
  /\ pc = "done"
  /\ Entry = "latest_round_data_anchor"
  /\ inner = Err("InvalidAccountData")
  /\ invoke_result = "Ok"
  /\ result = Err("AccountNotEnoughKeys")

\* ---- C8
C8_Tag(fn) ==
  CASE fn = "version" -> 0
    [] fn \in {"decimals", "decimals_anchor"} -> 1
    [] fn \in {"description", "description_anchor"} -> 2
    [] fn \in {"latest_round_data", "latest_round_data_anchor"} -> 4
    [] fn = "aggregator" -> 5

\* C8: each public entry point is bound to one Query variant (version 0,
\* decimals 1, description 2, latest_round_data 4, aggregator 5, the adapters
\* like their raw entry points), so every instruction emitted over any
\* sequence of calls has exactly 9 data bytes and its tag byte is never 3.
C8_FixedBinding ==
  Handed =>
    /\ Len(cpi.ix.data) = 9
    /\ cpi.ix.data[9] = C8_Tag(Entry)
    /\ cpi.ix.data[9] # 3

C8_Witness ==
  /\ Handed
  /\ Entry = "latest_round_data_anchor"
  /\ cpi.ix.data[9] = 4
  /\ return_data.present

\* ---- C9
IsPrefix(a, b) == Len(a) <= Len(b) /\ a = Take(b, Len(a))

\* C9: within one call the steps are encode, invoke, read return data, decode
\* in that order and the runtime is invoked exactly once, with no retry after a
\* failed invocation or decode; a failed invocation ends the call at once with
\* a failure, the return data unread and nothing decoded.
C9_StepOrder ==
  /\ IsPrefix(steps, <<"encode", "invoke", "read", "decode">>)
  /\ invocations = (IF Len(steps) >= 2 THEN 1 ELSE 0)
  /\ pc \in {"invoked", "read", "returned", "done", "panicked"} => invocations = 1
  /\ invoke_result \notin {"none", "Ok"} =>
       /\ steps = <<"encode", "invoke">>
       /\ pc \in {"returned", "done"}
       /\ data = <<>>
       /\ inner.kind = "Err"
       /\ result.kind # "Ok"

C9_Witness ==
  /\ pc = "done"
  /\ invoke_result = "AccountBorrowFailed"
  /\ return_data = SomeReturnData(KeyB, SerializeRound(ExampleRound))
  /\ Entry = "latest_round_data"
  /\ steps = <<"encode", "invoke">>
  /\ result.kind = "Err"

\* ---- C10
\* C10: query never checks the program id the return data is tagged with: a
\* buffer tagged with another id than the invoked target is read, decoded and
\* returned exactly as the same bytes tagged with the target's id would be.
C10_TagIgnored ==
  (pc \in {"read", "returned", "done"} /\ invoke_result = "Ok"
     /\ return_data.key # cpi.ix.program_id) =>
    /\ data = return_data.data
    /\ pc # "read" =>
         /\ Decoded
         /\ inner.kind = "Ok" <=> WellFormed(T, return_data.data)
         /\ inner.kind = "Ok" => Serialize(inner.val) = return_data.data

C10_Witness ==
  /\ pc = "done"
  /\ Entry = "aggregator"
  /\ cpi.ix.program_id = KeyA
  /\ return_data = SomeReturnData(KeyB, KeyB)
  /\ result.kind = "Ok"
  /\ result.val = Val("Pubkey", KeyB)
====
